---------------------------- MODULE Spec2Model ----------------------------
(***************************************************************************)
(* State-machine model of the NWS client library (src/src/lib.rs):        *)
(* the report pipeline weather_report (get_point, get_forecast_hourly,    *)
(* the ten-period window, the rendering loop), the fetchers get_forecast  *)
(* and get_forecast_hourly called directly, and WeatherBundle::new.       *)
(*                                                                         *)
(* An async function is modelled by the request it sends and by the       *)
(* result it computes from the transport's answer; the transport (the     *)
(* HTTP client and the remote service) is the environment and may answer  *)
(* with a send error, a body-read error or any body.                      *)
(***************************************************************************)
EXTENDS Integers, Sequences, FiniteSets, TLC

(***************************************************************************)
(* Bounds of the model.                                                    *)
(***************************************************************************)
\* Number of weather_report invocations that may be in flight together.
NReports == 2
\* Longest periods array the service returns to a report.
MaxPeriods == 12
\* Longest periods array handed to WeatherBundle::new.
MaxBundlePeriods == 3

(***************************************************************************)
(* Program constants.                                                      *)
(***************************************************************************)
\* resf.properties.periods[0..10]
Window == 10
\* pub temperature: i8
I8Min == -128
I8Max == 127

Reports == 1..NReports

(***************************************************************************)
(* Option<T> and Result<T, Error>.                                         *)
(***************************************************************************)
None == <<>>
Some(x) == <<x>>
Ok(v) == [ok |-> TRUE, val |-> v]
Err(e) == [ok |-> FALSE, err |-> e]

\* Variant of unwrap: Option::unwrap_or_default, the empty string for None.
unwrap_or_default(o) == IF o = None THEN [panic |-> FALSE, val |-> ""]
                                    ELSE [panic |-> FALSE, val |-> o[1]]

\* Option::unwrap: the value, or a panic when the option is None.
unwrap(o) == IF o = None THEN [panic |-> TRUE, val |-> ""]
                         ELSE [panic |-> FALSE, val |-> o[1]]

(***************************************************************************)
(* Values.  A DateTime<Local> is a day and an hour of that day;           *)
(* DateTime::time() keeps the time of day and drops the date.              *)
(***************************************************************************)
DateTime(d, h) == [day |-> d, hour |-> h]
time(dt) == dt.hour

\* Point { lat, lng }; coordinates are counted in hundredths of a degree.
Point(lat, lng) == [lat |-> lat, lng |-> lng]

\* City { city, state_id, lat, lng }
Cities ==
  { [city |-> "Albuquerque", state_id |-> "NM", lat |-> 3505, lng |-> -10665],
    [city |-> "Paris", state_id |-> "IDF", lat |-> 4885, lng |-> -235] }

\* Coordinates handed to weather_report.
Points == { Point(3505, -10665), Point(4000, -7450) }

\* f32::to_string of a coordinate: the shortest decimal text, so 40.0 is
\* written "40", -74.5 is "-74.5" and 35.05 is "35.05".
f32_to_string(c) ==
  LET a    == IF c < 0 THEN -c ELSE c
      sign == IF c < 0 THEN "-" ELSE ""
      w    == a \div 100
      f    == a % 100
  IN  IF f = 0 THEN sign \o ToString(w)
      ELSE IF f % 10 = 0 THEN sign \o ToString(w) \o "." \o ToString(f \div 10)
      ELSE IF f < 10 THEN sign \o ToString(w) \o ".0" \o ToString(f)
      ELSE sign \o ToString(w) \o "." \o ToString(f)

(***************************************************************************)
(* The transport.  A request is a GET of a URL by a client; an answer is   *)
(* a failure of send(), a failure of text(), or a body.                    *)
(***************************************************************************)
\* Client::builder().user_agent("thunderman").build(): the client of report r.
Client(r) == [id |-> r, user_agent |-> "thunderman"]

Get(client, url) == [method |-> "GET", client |-> client, url |-> url]

SendErr == [kind |-> "send_err"]
TextErr == [kind |-> "text_err"]
Body(b) == [kind |-> "body", body |-> b]

UrlForecast == "https://api.weather.gov/gridpoints/ABQ/97,120/forecast"
UrlHourly   == "https://api.weather.gov/gridpoints/ABQ/97,120/forecast/hourly"

(***************************************************************************)
(* Bodies of the point-metadata endpoint.  A body is a JSON object, here   *)
(* a record of the keys it carries; PointProps names forecastHourly by its *)
(* wire name, so a body that spells the key forecast_hourly, or lacks it,  *)
(* does not decode.  The other required keys of PointInfo are taken as     *)
(* present whenever the key "id" is.                                       *)
(***************************************************************************)
MetaBodies ==
  { [id |-> "p", forecast |-> UrlForecast, forecastHourly |-> UrlHourly],
    [id |-> "p", forecast |-> UrlHourly, forecastHourly |-> UrlForecast],
    [id |-> "p", forecast |-> UrlForecast, forecastHourly |-> UrlForecast],
    [id |-> "p", forecast |-> UrlForecast],
    [id |-> "p", forecast |-> UrlForecast, forecast_hourly |-> UrlHourly],
    [message |-> "Not Found"] }

\* serde_json::from_str::<PointInfo>
from_str_PointInfo(body) ==
  IF {"id", "forecast", "forecastHourly"} \subseteq DOMAIN body
  THEN Ok([id |-> body.id,
           properties |-> [forecast |-> body.forecast,
                           forecast_hourly |-> body.forecastHourly]])
  ELSE Err("Decode")

(***************************************************************************)
(* Bodies of a forecast endpoint.  A period on the wire carries its keys   *)
(* in camelCase; windSpeed and windDirection may be absent (None).  The    *)
(* required keys the model does not read (units, generatedAt, elevation,   *)
(* name, isDaytime, ...) are taken as present whenever "properties" is.    *)
(***************************************************************************)
WirePeriod(n, st, en, t, ws, wd, sf) ==
  [number |-> n, startTime |-> st, endTime |-> en, temperature |-> t,
   windSpeed |-> ws, windDirection |-> wd, shortForecast |-> sf]

WireForecast(upd, ps) == [properties |-> [updated |-> upd, periods |-> ps]]

Summary(k) == IF k % 2 = 0 THEN "Sunny" ELSE "Mostly Cloudy"

\* n hourly periods in chronological order; the first two carry the
\* extreme temperatures an i8 holds.
Chrono(n) ==
  WireForecast(DateTime(1, 0),
    [k \in 1..n |->
       WirePeriod(k, DateTime(1, k), DateTime(1, k + 1),
                  IF k = 1 THEN I8Min ELSE IF k = 2 THEN I8Max ELSE 60 + k,
                  Some("5 mph"), Some("NW"), Summary(k))])

\* n periods, latest first, one per day, without wind fields.
Reverse(n) ==
  WireForecast(DateTime(2, 0),
    [k \in 1..n |->
       WirePeriod(k, DateTime(n - k + 1, 6), DateTime(n - k + 1, 18),
                  40 - k, None, None, Summary(k + 1))])

\* As Chrono(n), the last period with a temperature no i8 holds.
Hot(n) ==
  WireForecast(DateTime(1, 0),
    [k \in 1..n |->
       IF k = n THEN [Chrono(n).properties.periods[k]
                        EXCEPT !.temperature = I8Max + 1]
                ELSE Chrono(n).properties.periods[k]])

ForecastBodies ==
  {Chrono(n) : n \in 0..MaxPeriods} \cup {Reverse(n) : n \in 0..MaxPeriods}
    \cup {Hot(n) : n \in 1..MaxPeriods} \cup {[message |-> "Not Found"]}

\* ForecastPeriod, as serde decodes it from a period on the wire.
ForecastPeriod(w) ==
  [number |-> w.number, start_time |-> w.startTime, end_time |-> w.endTime,
   temperature |-> w.temperature, wind_speed |-> w.windSpeed,
   wind_direction |-> w.windDirection, short_forecast |-> w.shortForecast]

\* serde_json::from_str::<Forecast>
from_str_Forecast(body) ==
  IF "properties" \notin DOMAIN body THEN Err("Decode")
  ELSE LET ps == body.properties.periods IN
       IF \E k \in 1..Len(ps) :
            ps[k].temperature < I8Min \/ ps[k].temperature > I8Max
       THEN Err("Decode")
       ELSE Ok([properties |->
                  [updated |-> body.properties.updated,
                   periods |-> [k \in 1..Len(ps) |-> ForecastPeriod(ps[k])]]])

(***************************************************************************)
(* get_point, get_forecast, get_forecast_hourly: the request each sends    *)
(* and the result each returns for the transport's answer.                 *)
(***************************************************************************)
get_point_send(pnt, client) ==
  Get(client, "http://api.weather.gov/" \o "points/" \o f32_to_string(pnt.lat)
                \o "," \o f32_to_string(pnt.lng))

get_point_recv(resp) ==
  IF resp.kind # "body" THEN Err("Network") ELSE from_str_PointInfo(resp.body)

get_forecast_send(pnt, client) == Get(client, pnt.properties.forecast)

get_forecast_recv(resp) ==
  IF resp.kind # "body" THEN Err("Network") ELSE from_str_Forecast(resp.body)

\* Variant of get_forecast_hourly_send: the standard forecast's URL.
get_forecast_hourly_send_standard(pnt, client) ==
  Get(client, pnt.properties.forecast)

get_forecast_hourly_send(pnt, client) ==
  Get(client, pnt.properties.forecast_hourly)

get_forecast_hourly_recv(resp) ==
  IF resp.kind # "body" THEN Err("Network") ELSE from_str_Forecast(resp.body)

\* Variant of debug: the body is printed to the output stream.
debug_println(stdout, body) == Append(stdout, body)

\* log::debug!: the body goes to the logger, not to the output stream.
debug(stdout, body) == stdout

\* Variant of SliceWindow: the last ten periods.
SliceLast(periods) ==
  IF Len(periods) < Window THEN [panic |-> TRUE, items |-> <<>>]
  ELSE [panic |-> FALSE,
        items |-> SubSeq(periods, Len(periods) - Window + 1, Len(periods))]

\* Variant of SliceWindow: the window clamped to the periods there are.
SliceClamped(periods) ==
  [panic |-> FALSE,
   items |-> SubSeq(periods, 1, IF Len(periods) < Window THEN Len(periods)
                                                         ELSE Window)]

\* periods[0..10]: the first ten periods, or a panic when there are fewer.
SliceWindow(periods) ==
  IF Len(periods) < Window THEN [panic |-> TRUE, items |-> <<>>]
  ELSE [panic |-> FALSE, items |-> SubSeq(periods, 1, Window)]

\* println!("{:#?}-{:#?} = {:#?}°F :: {:#?}", ...): one line of the report.
Line(i) ==
  [start |-> time(i.start_time), end |-> time(i.end_time),
   temperature |-> i.temperature, short_forecast |-> i.short_forecast]

(***************************************************************************)
(* WeatherBundle::new(loc, fcb).                                           *)
(***************************************************************************)
\* Variant of ForecastBundle: the two wind fields exchanged.
ForecastBundleSwapped(i, ws, wd) ==
  [start |-> i.start_time, end |-> i.end_time, temperature |-> i.temperature,
   wind_speed |-> wd, wind_direction |-> ws,
   short_forecast |-> i.short_forecast]

\* ForecastBundle { start, end, temperature, wind_speed, wind_direction,
\* short_forecast } built from period i and its two unwrapped wind fields.
ForecastBundle(i, ws, wd) ==
  [start |-> i.start_time, end |-> i.end_time, temperature |-> i.temperature,
   wind_speed |-> ws, wind_direction |-> wd,
   short_forecast |-> i.short_forecast]

\* for i in fcb.properties.periods.iter() { ...; vec.push(i) }: the loop from
\* the periods still to visit and the vector built so far.  An unwrap of a
\* missing wind field panics and the loop is left at once.
RECURSIVE BundleLoop(_, _)
BundleLoop(rest, vec) ==
  IF rest = <<>> THEN [panic |-> FALSE, vec |-> vec]
  ELSE LET i  == Head(rest)
           ws == unwrap(i.wind_speed)
           wd == unwrap(i.wind_direction)
       IN  IF ws.panic \/ wd.panic
           THEN [panic |-> TRUE, vec |-> vec]
           ELSE BundleLoop(Tail(rest), Append(vec, ForecastBundle(i, ws.val, wd.val)))

\* The bundle, or the panic and the period (counted from 1) it happened at.
WeatherBundle_new(loc, fcb) ==
  LET l == BundleLoop(fcb.properties.periods, <<>>) IN
  IF l.panic
  THEN [panic |-> TRUE, at |-> Len(l.vec) + 1]
  ELSE [panic |-> FALSE,
        val |-> [location |-> loc, forecast |-> l.vec,
                 updated |-> fcb.properties.updated]]

\* Forecasts handed to WeatherBundle::new: every choice of present and
\* absent wind fields over at most MaxBundlePeriods periods.
WindSpeeds == {None, Some("5 mph"), Some("10 to 15 mph")}
WindDirections == {None, Some("NW")}

BundleForecasts ==
  { [properties |->
       [updated |-> DateTime(3, n),
        periods |-> [k \in 1..n |->
           ForecastPeriod(WirePeriod(k, DateTime(1, k), DateTime(1, k + 1),
                                     50 - k, ws[k], wd[k], Summary(k)))]]] :
      <<n, ws, wd>> \in
        UNION { {n} \X [1..n -> WindSpeeds] \X [1..n -> WindDirections] :
                n \in 0..MaxBundlePeriods } }

(***************************************************************************)
(* State.  Every variable but lib is indexed by the report.                *)
(***************************************************************************)
VARIABLES
  pc,      \* position of the report: Idle, Resolving, Fetching, Rendering,
           \* Done, Failed
  err,     \* why the report failed: None, or Some of Build, Network, Decode,
           \* Panic
  point,   \* let point
  info,    \* let res: the decoded PointInfo
  resf,    \* let resf: the decoded Forecast
  iter,    \* the periods the for loop has still to visit
  out,     \* the lines the report has written to the output stream
  sent,    \* the requests the report's client has sent, in order
  hist,    \* the answers the report has received, in order
  lib      \* a direct call of a library function and its outcome

vars == <<pc, err, point, info, resf, iter, out, sent, hist, lib>>

NoCall == [fn |-> "none"]

Init ==
  /\ pc = [r \in Reports |-> "Idle"]
  /\ err = [r \in Reports |-> None]
  /\ point = [r \in Reports |-> None]
  /\ info = [r \in Reports |-> None]
  /\ resf = [r \in Reports |-> None]
  /\ iter = [r \in Reports |-> <<>>]
  /\ out = [r \in Reports |-> <<>>]
  /\ sent = [r \in Reports |-> <<>>]
  /\ hist = [r \in Reports |-> <<>>]
  /\ lib = NoCall

\* A report returns Err(e), or unwinds from a panic.
Fail(r, e) ==
  /\ pc' = [pc EXCEPT ![r] = "Failed"]
  /\ err' = [err EXCEPT ![r] = Some(e)]

(***************************************************************************)
(* weather_report(lat, lng), up to its first await: build the client       *)
(* (build()? may fail), make the point, send the metadata request.  A      *)
(* run is of reports or of one direct call of the library, not of both.    *)
(***************************************************************************)
Start(r, points) ==
  /\ pc[r] = "Idle"
  /\ lib = NoCall
  /\ \E p \in points, built \in BOOLEAN :
       IF built
       THEN /\ point' = [point EXCEPT ![r] = Some(p)]
            /\ pc' = [pc EXCEPT ![r] = "Resolving"]
            /\ sent' = [sent EXCEPT ![r] = Append(@, get_point_send(p, Client(r)))]
            /\ err' = err
       ELSE /\ Fail(r, "Build")
            /\ UNCHANGED <<point, sent>>
  /\ UNCHANGED <<info, resf, iter, out, hist, lib>>

\* Variant of PointResponse: a request the transport failed is sent again,
\* once.
PointResponseRetry(r, answers) ==
  /\ pc[r] = "Resolving"
  /\ \E resp \in answers :
       LET res == get_point_recv(resp) IN
       /\ hist' = [hist EXCEPT ![r] = Append(@, resp)]
       /\ out' = out
       /\ IF res.ok
          THEN /\ info' = [info EXCEPT ![r] = Some(res.val)]
               /\ sent' = [sent EXCEPT ![r] =
                             Append(@, get_forecast_hourly_send(res.val, Client(r)))]
               /\ pc' = [pc EXCEPT ![r] = "Fetching"]
               /\ err' = err
          ELSE IF resp.kind # "body" /\ Len(hist[r]) = 0
          THEN /\ sent' = [sent EXCEPT ![r] =
                             Append(@, get_point_send(point[r][1], Client(r)))]
               /\ UNCHANGED <<info, pc, err>>
          ELSE /\ Fail(r, res.err)
               /\ UNCHANGED <<info, sent>>
  /\ UNCHANGED <<point, resf, iter, lib>>

(***************************************************************************)
(* The metadata answer arrives: get_point returns; on Ok the report sends  *)
(* the hourly forecast request, on Err it returns the error.               *)
(***************************************************************************)
PointResponse(r, answers) ==
  /\ pc[r] = "Resolving"
  /\ \E resp \in answers :
       LET res == get_point_recv(resp) IN
       /\ hist' = [hist EXCEPT ![r] = Append(@, resp)]
       /\ out' = [out EXCEPT ![r] =
                    IF resp.kind = "body" THEN debug(@, resp.body) ELSE @]
       /\ IF res.ok
          THEN /\ info' = [info EXCEPT ![r] = Some(res.val)]
               /\ sent' = [sent EXCEPT ![r] =
                             Append(@, get_forecast_hourly_send(res.val, Client(r)))]
               /\ pc' = [pc EXCEPT ![r] = "Fetching"]
               /\ err' = err
          ELSE /\ Fail(r, res.err)
               /\ UNCHANGED <<info, sent>>
  /\ UNCHANGED <<point, resf, iter, lib>>

\* Variant of ForecastResponse: a fetch that failed is passed over and the
\* report goes on to its loop with no periods.
ForecastResponseContinue(r, answers) ==
  /\ pc[r] = "Fetching"
  /\ \E resp \in answers :
       LET res == get_forecast_hourly_recv(resp) IN
       /\ hist' = [hist EXCEPT ![r] = Append(@, resp)]
       /\ IF res.ok
          THEN LET win == SliceWindow(res.val.properties.periods) IN
               /\ resf' = [resf EXCEPT ![r] = Some(res.val)]
               /\ IF win.panic
                  THEN /\ Fail(r, "Panic")
                       /\ iter' = iter
                  ELSE /\ pc' = [pc EXCEPT ![r] = "Rendering"]
                       /\ iter' = [iter EXCEPT ![r] = win.items]
                       /\ err' = err
          ELSE /\ pc' = [pc EXCEPT ![r] = "Rendering"]
               /\ UNCHANGED <<resf, iter, err>>
  /\ UNCHANGED <<point, info, out, sent, lib>>

\* Variant of ForecastResponse: the decoded forecast is kept in one place
\* that all reports share, and a report renders what is kept there.
ForecastResponseCached(r, answers) ==
  /\ pc[r] = "Fetching"
  /\ \E resp \in answers :
       LET res == get_forecast_hourly_recv(resp) IN
       /\ hist' = [hist EXCEPT ![r] = Append(@, resp)]
       /\ IF res.ok
          THEN LET kept == IF \E q \in Reports : resf[q] # None
                           THEN resf[CHOOSE q \in Reports : resf[q] # None][1]
                           ELSE res.val
                   win == SliceWindow(kept.properties.periods) IN
               /\ resf' = [resf EXCEPT ![r] = Some(kept)]
               /\ IF win.panic
                  THEN /\ Fail(r, "Panic")
                       /\ iter' = iter
                  ELSE /\ pc' = [pc EXCEPT ![r] = "Rendering"]
                       /\ iter' = [iter EXCEPT ![r] = win.items]
                       /\ err' = err
          ELSE /\ Fail(r, res.err)
               /\ UNCHANGED <<resf, iter>>
  /\ UNCHANGED <<point, info, out, sent, lib>>

(***************************************************************************)
(* The forecast answer arrives: get_forecast_hourly returns; on Ok the     *)
(* report takes periods[0..10] and enters the loop.                        *)
(***************************************************************************)
ForecastResponse(r, answers) ==
  /\ pc[r] = "Fetching"
  /\ \E resp \in answers :
       LET res == get_forecast_hourly_recv(resp) IN
       /\ hist' = [hist EXCEPT ![r] = Append(@, resp)]
       /\ IF res.ok
          THEN LET win == SliceWindow(res.val.properties.periods) IN
               /\ resf' = [resf EXCEPT ![r] = Some(res.val)]
               /\ IF win.panic
                  THEN /\ Fail(r, "Panic")
                       /\ iter' = iter
                  ELSE /\ pc' = [pc EXCEPT ![r] = "Rendering"]
                       /\ iter' = [iter EXCEPT ![r] = win.items]
                       /\ err' = err
          ELSE /\ Fail(r, res.err)
               /\ UNCHANGED <<resf, iter>>
  /\ UNCHANGED <<point, info, out, sent, lib>>

(***************************************************************************)
(* One turn of the for loop: print the next period, or leave the loop and  *)
(* return Ok(()).                                                          *)
(***************************************************************************)
RenderLine(r) ==
  /\ pc[r] = "Rendering"
  /\ IF iter[r] = <<>>
     THEN /\ pc' = [pc EXCEPT ![r] = "Done"]
          /\ UNCHANGED <<iter, out>>
     ELSE /\ out' = [out EXCEPT ![r] = Append(@, Line(Head(iter[r])))]
          /\ iter' = [iter EXCEPT ![r] = Tail(@)]
          /\ pc' = pc
  /\ UNCHANGED <<err, point, info, resf, sent, hist, lib>>

(***************************************************************************)
(* Direct calls of the library, by a caller that runs no report.           *)
(***************************************************************************)
NoReport == \A r \in Reports : pc[r] = "Idle"

\* The caller's own client.
CallerClient == Client(0)

\* Metadata bodies that decode, and the answers a direct fetch may get.
DecodableMeta == {b \in MetaBodies : from_str_PointInfo(b).ok}
CallAnswers ==
  {SendErr, TextErr, Body([message |-> "Not Found"]), Body(Chrono(2)), Body(Hot(2))}

CallWeatherBundleNew ==
  /\ lib = NoCall
  /\ NoReport
  /\ \E loc \in Cities, fcb \in BundleForecasts :
       lib' = [fn |-> "WeatherBundle::new", loc |-> loc, fcb |-> fcb,
               res |-> WeatherBundle_new(loc, fcb)]
  /\ UNCHANGED <<pc, err, point, info, resf, iter, out, sent, hist>>

CallGetForecast ==
  /\ lib = NoCall
  /\ NoReport
  /\ \E b \in DecodableMeta, resp \in CallAnswers :
       LET pnt == from_str_PointInfo(b).val IN
       lib' = [fn |-> "get_forecast", meta |-> b, answer |-> resp,
               sent |-> <<get_forecast_send(pnt, CallerClient)>>,
               res |-> get_forecast_recv(resp)]
  /\ UNCHANGED <<pc, err, point, info, resf, iter, out, sent, hist>>

CallGetForecastHourly ==
  /\ lib = NoCall
  /\ NoReport
  /\ \E b \in DecodableMeta, resp \in CallAnswers :
       LET pnt == from_str_PointInfo(b).val IN
       lib' = [fn |-> "get_forecast_hourly", meta |-> b, answer |-> resp,
               sent |-> <<get_forecast_hourly_send(pnt, CallerClient)>>,
               res |-> get_forecast_hourly_recv(resp)]
  /\ UNCHANGED <<pc, err, point, info, resf, iter, out, sent, hist>>

AllAnswers(bodies) == {SendErr, TextErr} \cup {Body(b) : b \in bodies}

\* One report with every answer the transport may give, or one direct call
\* of the library.
Next ==
  \/ \E r \in {1} :
       \/ Start(r, Points)
       \/ PointResponse(r, AllAnswers(MetaBodies))
       \/ ForecastResponse(r, AllAnswers(ForecastBodies))
       \/ RenderLine(r)
  \/ CallWeatherBundleNew
  \/ CallGetForecast
  \/ CallGetForecastHourly

Spec == Init /\ [][Next]_vars

\* Reports in flight together, their steps interleaved in any order; the
\* transport answers each from a smaller set.
ConcMetaAnswers == {SendErr, Body([id |-> "p", forecast |-> UrlForecast]),
                    Body([id |-> "p", forecast |-> UrlForecast,
                          forecastHourly |-> UrlHourly])}
ConcForecastAnswers == {TextErr, Body(Chrono(Window - 1)), Body(Chrono(Window)),
                        Body(Reverse(MaxPeriods))}

NextConc ==
  \E r \in Reports :
    \/ Start(r, Points)
    \/ PointResponse(r, ConcMetaAnswers)
    \/ ForecastResponse(r, ConcForecastAnswers)
    \/ RenderLine(r)

SpecConc == Init /\ [][NextConc]_vars

(***************************************************************************)
(* Properties.  What an answer holds is read off the answer itself: a      *)
(* metadata body decodes when it carries the keys PointInfo requires, a    *)
(* forecast body when it has properties and every temperature fits an i8.  *)
(***************************************************************************)
MetaDecodes(a) ==
  /\ a.kind = "body"
  /\ {"id", "forecast", "forecastHourly"} \subseteq DOMAIN a.body

ForecastDecodes(a) ==
  /\ a.kind = "body"
  /\ "properties" \in DOMAIN a.body
  /\ \A k \in DOMAIN a.body.properties.periods :
       a.body.properties.periods[k].temperature \in I8Min..I8Max

\* The periods of a forecast answer, as sent.
WirePeriods(a) == a.body.properties.periods

\* The line a period on the wire is to be shown as.
WireLine(w) ==
  [start |-> w.startTime.hour, end |-> w.endTime.hour,
   temperature |-> w.temperature, short_forecast |-> w.shortForecast]

Edges ==
  { <<"Idle", "Resolving">>, <<"Resolving", "Fetching">>,
    <<"Fetching", "Rendering">>, <<"Rendering", "Done">> }
    \cup { <<p, "Failed">> : p \in {"Idle", "Resolving", "Fetching", "Rendering"} }

PipelineState(r) ==
  /\ pc[r] = "Idle" => sent[r] = <<>> /\ hist[r] = <<>>
  /\ pc[r] = "Resolving" => Len(sent[r]) = 1 /\ hist[r] = <<>>
  /\ Len(sent[r]) >= 2 =>
       /\ Len(hist[r]) >= 1
       /\ MetaDecodes(hist[r][1])
       /\ info[r] # None
  /\ pc[r] = "Fetching" => Len(sent[r]) = 2 /\ Len(hist[r]) = 1
  /\ (pc[r] \in {"Rendering", "Done"} \/ out[r] # <<>> \/ iter[r] # <<>>) =>
       /\ Len(hist[r]) = 2
       /\ ForecastDecodes(hist[r][2])
       /\ resf[r] # None
  /\ pc[r] = "Failed" =>
       /\ Len(sent[r]) = Len(hist[r])
       /\ Len(hist[r]) = 0 => info[r] = None
       /\ Len(hist[r]) <= 1 => resf[r] = None
       /\ iter[r] = <<>>
       /\ out[r] = <<>>

PipelineStep(r) ==
  /\ pc'[r] # pc[r] => <<pc[r], pc'[r]>> \in Edges
  /\ pc[r] \in {"Done", "Failed"} =>
       /\ pc'[r] = pc[r]
       /\ sent'[r] = sent[r]
       /\ hist'[r] = hist[r]
       /\ out'[r] = out[r]

\* C1: a report moves only Idle -> Resolving -> Fetching -> Rendering -> Done;
\* the forecast request is sent only after the metadata answer decoded,
\* rendering starts only after the forecast answer decoded, and a failure
\* moves the report straight to Failed, where nothing later runs.
C1_PipelineOrder ==
  /\ [](\A r \in Reports : PipelineState(r))
  /\ [][\A r \in Reports : PipelineStep(r)]_vars

C1_Witness ==
  /\ pc[1] = "Done"
  /\ Len(sent[1]) = 2
  /\ Len(hist[1]) = 2
  /\ Len(out[1]) = Window

\* C2: a report that failed has written no line to the output stream.
C2_NoPartialOutput ==
  \A r \in Reports : pc[r] = "Failed" => out[r] = <<>>

C2_Witness ==
  /\ pc[1] = "Failed"
  /\ err[1] = Some("Panic")
  /\ ForecastDecodes(hist[1][2])
  /\ Len(WirePeriods(hist[1][2])) = Window - 1

\* C3: for a Forecast whose N periods all carry both wind fields,
\* WeatherBundle::new returns a bundle of exactly N entries, entry k built
\* from period k with its start, end, temperature, wind speed, wind direction
\* and short forecast, updated copied from the forecast and the given City
\* as location.
C3_BundleCopiesPeriods ==
  (/\ lib.fn = "WeatherBundle::new"
   /\ \A k \in DOMAIN lib.fcb.properties.periods :
        /\ lib.fcb.properties.periods[k].wind_speed # None
        /\ lib.fcb.properties.periods[k].wind_direction # None)
  => /\ ~lib.res.panic
     /\ Len(lib.res.val.forecast) = Len(lib.fcb.properties.periods)
     /\ \A k \in DOMAIN lib.fcb.properties.periods :
          LET i == lib.fcb.properties.periods[k]
              b == lib.res.val.forecast[k]
          IN  /\ b.start = i.start_time
              /\ b.end = i.end_time
              /\ b.temperature = i.temperature
              /\ Some(b.wind_speed) = i.wind_speed
              /\ Some(b.wind_direction) = i.wind_direction
              /\ b.short_forecast = i.short_forecast
     /\ lib.res.val.updated = lib.fcb.properties.updated
     /\ lib.res.val.location = lib.loc

C3_Witness ==
  /\ lib.fn = "WeatherBundle::new"
  /\ Len(lib.fcb.properties.periods) = MaxBundlePeriods
  /\ ~lib.res.panic
  /\ lib.fcb.properties.periods[1].wind_speed
       # lib.fcb.properties.periods[2].wind_speed

\* The first period that lacks a wind field, 0 when none does.
FirstMissing(ps) ==
  IF \E k \in DOMAIN ps : ps[k].wind_speed = None \/ ps[k].wind_direction = None
  THEN CHOOSE k \in DOMAIN ps :
         /\ ps[k].wind_speed = None \/ ps[k].wind_direction = None
         /\ \A j \in 1..(k - 1) :
              ps[j].wind_speed # None /\ ps[j].wind_direction # None
  ELSE 0

\* C4: when a period lacks wind_speed or wind_direction, WeatherBundle::new
\* fails at the first such period: it returns no bundle and puts no default
\* in place of the missing field.
C4_MissingWindFails ==
  (/\ lib.fn = "WeatherBundle::new"
   /\ FirstMissing(lib.fcb.properties.periods) # 0)
  => /\ lib.res.panic
     /\ lib.res.at = FirstMissing(lib.fcb.properties.periods)
     /\ "val" \notin DOMAIN lib.res

C4_Witness ==
  /\ lib.fn = "WeatherBundle::new"
  /\ Len(lib.fcb.properties.periods) >= 3
  /\ FirstMissing(lib.fcb.properties.periods) = 2
  /\ lib.fcb.properties.periods[2].wind_speed # None
  /\ lib.fcb.properties.periods[3].wind_speed = None
  /\ lib.res.panic

\* C5: when both answers decoded and the forecast has at least ten periods,
\* the report renders in order the lines of periods 1..10 as received, no
\* line of a later period, does not fail, can always take its next turn of
\* the loop, and is Done with exactly ten lines.
C5_RendersFirstTen ==
  \A r \in Reports :
    (/\ Len(hist[r]) = 2
     /\ MetaDecodes(hist[r][1])
     /\ ForecastDecodes(hist[r][2])
     /\ Len(WirePeriods(hist[r][2])) >= Window)
    => /\ pc[r] \in {"Rendering", "Done"}
       /\ Len(out[r]) <= Window
       /\ \A k \in DOMAIN out[r] : out[r][k] = WireLine(WirePeriods(hist[r][2])[k])
       /\ pc[r] = "Done" => Len(out[r]) = Window
       /\ Len(out[r]) + Len(iter[r]) = Window
       /\ pc[r] = "Rendering" => ENABLED RenderLine(r)

C5_Witness ==
  /\ pc[1] = "Done"
  /\ Len(WirePeriods(hist[1][2])) > Window
  /\ Len(out[1]) = Window
  /\ out[1][Window] = WireLine(WirePeriods(hist[1][2])[Window])
  /\ WirePeriods(hist[1][2])[1].startTime.day > 1

\* C6: when the forecast answer decoded with fewer than ten periods the
\* report fails: it is never Done and renders none of the periods.
C6_ShortForecastFails ==
  \A r \in Reports :
    (/\ Len(hist[r]) = 2
     /\ ForecastDecodes(hist[r][2])
     /\ Len(WirePeriods(hist[r][2])) < Window)
    => /\ pc[r] = "Failed"
       /\ out[r] = <<>>
       /\ iter[r] = <<>>

C6_Witness ==
  /\ pc[1] = "Failed"
  /\ Len(hist[1]) = 2
  /\ ForecastDecodes(hist[1][2])
  /\ Len(WirePeriods(hist[1][2])) \in 1..(Window - 1)
  /\ WirePeriods(hist[1][2])[1].windSpeed = None

\* The URLs of the point-metadata endpoint for the coordinates of Points.
PointUrls ==
  { "http://api.weather.gov/points/35.05,-106.65",
    "http://api.weather.gov/points/40,-74.5" }

\* C7: a report sends at most one GET to the point-metadata endpoint and at
\* most one to a forecast endpoint, and an answer that fails (in transport
\* or in decoding) ends the report with that error, no request following.
C7_NoRetry ==
  \A r \in Reports :
    /\ Len(sent[r]) <= 2
    /\ \A i \in DOMAIN sent[r] : sent[r][i].method = "GET"
    /\ Cardinality({i \in DOMAIN sent[r] : sent[r][i].url \in PointUrls}) <= 1
    /\ Cardinality({i \in DOMAIN sent[r] : sent[r][i].url \notin PointUrls}) <= 1
    /\ \A i \in DOMAIN hist[r] :
         (IF i = 1 THEN ~MetaDecodes(hist[r][i]) ELSE ~ForecastDecodes(hist[r][i]))
         => /\ pc[r] = "Failed"
            /\ err[r] = Some(IF hist[r][i].kind = "body" THEN "Decode" ELSE "Network")
            /\ Len(hist[r]) = i
            /\ Len(sent[r]) = i

C7_Witness ==
  /\ pc[1] = "Failed"
  /\ err[1] = Some("Network")
  /\ Len(sent[1]) = 2
  /\ sent[1][1].url \in PointUrls
  /\ sent[1][2].url \notin PointUrls

\* What a report that runs alone ends with, for the answers it is given.
Alone(h) ==
  IF /\ Len(h) = 2
     /\ MetaDecodes(h[1])
     /\ ForecastDecodes(h[2])
     /\ Len(WirePeriods(h[2])) >= Window
  THEN [pc |-> "Done", out |-> [k \in 1..Window |-> WireLine(WirePeriods(h[2])[k])]]
  ELSE [pc |-> "Failed", out |-> <<>>]

\* C8: with reports interleaved in any order, every request of a report goes
\* through that report's own client, what a report has written is a prefix
\* of what it writes alone for its own answers, and a finished report has
\* the outcome (Done with its ten lines, or Failed) it has alone.
C8_ReportsIndependent ==
  \A r \in Reports :
    /\ \A i \in DOMAIN sent[r] : sent[r][i].client = Client(r)
    /\ \A q \in Reports \ {r} : Client(q) # Client(r)
    /\ Len(out[r]) <= Len(Alone(hist[r]).out)
    /\ \A k \in DOMAIN out[r] : out[r][k] = Alone(hist[r]).out[k]
    /\ pc[r] \in {"Done", "Failed"} =>
         /\ pc[r] = Alone(hist[r]).pc
         /\ out[r] = Alone(hist[r]).out

C8_Witness ==
  /\ pc[1] = "Rendering"
  /\ pc[2] = "Rendering"
  /\ Len(out[1]) = 4
  /\ Len(out[2]) = 7
  /\ hist[1][2] # hist[2][2]

\* C10: get_forecast requests the forecast URL of the metadata it is given
\* and get_forecast_hourly the forecastHourly URL, each as it stands; the
\* second request of a report is for the forecastHourly URL of the metadata
\* answer that report received, and a report never requests the standard
\* forecast URL.
C10_ForecastUrl ==
  /\ lib.fn = "get_forecast" =>
       lib.sent = <<[method |-> "GET", client |-> CallerClient,
                     url |-> lib.meta.forecast]>>
  /\ lib.fn = "get_forecast_hourly" =>
       lib.sent = <<[method |-> "GET", client |-> CallerClient,
                     url |-> lib.meta.forecastHourly]>>
  /\ \A r \in Reports :
       Len(sent[r]) >= 2 =>
         /\ MetaDecodes(hist[r][1])
         /\ sent[r][2].url = hist[r][1].body.forecastHourly
         /\ \A i \in DOMAIN sent[r] :
              hist[r][1].body.forecast # hist[r][1].body.forecastHourly
              => sent[r][i].url # hist[r][1].body.forecast

C10_Witness ==
  /\ Len(sent[1]) = 2
  /\ hist[1][1].body.forecast = UrlHourly
  /\ sent[1][2].url = UrlForecast

=============================================================================
